---- MODULE Spec2Model ----
(***************************************************************************)
(* Model of scripts/s3/s3api/bucket_operations.py: TestBucketOps, the S3   *)
(* bucket-operations workload.  One driver instance runs                    *)
(* execute_bucket_workload; the storage service, the local file system,    *)
(* the two clocks (datetime.now and time.perf_counter_ns) and the          *)
(* process-global random generator are its environment.                    *)
(***************************************************************************)
EXTENDS Integers, Sequences, FiniteSets, TLC

\* ---------------------------------------------------------------- bounds
\* Largest value of self.iteration explored (the loop itself is unbounded).
MaxIter == 3
\* Objects per iteration explored; stands for the 500 of line 60.
ObjectsBound == 2
\* Largest number of seconds datetime.now() advances during one iteration.
MaxElapsed == 3
\* Number of constructions/draws of other driver instances in the process.
MaxOther == 1

\* ------------------------------------------------------- program constants
\* self.min_duration = 10  # In seconds
min_duration == 10
\* self.object_per_iter = 500 (scaled to ObjectsBound)
object_per_iter == ObjectsBound
\* timedelta(hours=int(100 * 24)), in seconds
DefaultDuration == 100 * 24 * 3600

\* ------------------------------------------------------------ input sets
\* duration: timedelta = None.  given = FALSE is None; secs may be zero or
\* negative (timedelta allows both).
Durations ==
    {[given |-> FALSE, secs |-> 0]} \cup
    {[given |-> TRUE, secs |-> d] : d \in {-2, 0, 5, 12}}

\* object_size: Union[int, dict]
ObjectSizes ==
    {[dict |-> FALSE, value |-> 2, start |-> 0, end |-> 0],
     [dict |-> TRUE, value |-> 0, start |-> 1, end |-> 3]}

\* test_id, as a sequence of characters
TestIds == {<<"T", "x">>, <<"q">>}

Seeds == {1, 2}

\* ------------------------------------------------- random (process-global)
RngMod == 8

\* random.seed(seed): the generator state is a function of the seed alone
RngSeed(s) == s % RngMod

\* one step of the generator
RngNext(r) == (5 * r + 3) % RngMod

\* random.randrange(start, stop) on generator state r (already advanced)
randrange(r, start, stop) == start + (r % (stop - start))

\* lines 72-75, resolved with a wrong (inclusive) upper end
ResolveSize_inclusive(osz, r) ==
    IF osz.dict THEN randrange(r, osz.start, osz.end + 1) ELSE osz.value

\* lines 72-75: file_size of the iteration, r the advanced generator state
ResolveSize(osz, r) ==
    IF osz.dict THEN randrange(r, osz.start, osz.end) ELSE osz.value

\* ------------------------------------------------------------------ names
UpperChars == {"T", "B"}

LowerChar(c) == CASE c = "T" -> "t" [] c = "B" -> "b" [] OTHER -> c

\* str.lower()
Lower(s) == [k \in DOMAIN s |-> LowerChar(s[k])]

NoName == [chars |-> <<>>, ts |-> 0]

\* line 76 without the .lower()
BucketName_nolower(id, ts) ==
    [chars |-> <<"bucket-op-">> \o id \o <<"-">>, ts |-> ts]

\* line 76: f'bucket-op-{self.test_id}-{time.perf_counter_ns()}'.lower()
BucketName(id, ts) ==
    [chars |-> Lower(<<"bucket-op-">> \o id \o <<"-">>), ts |-> ts]

\* line 81: f'object-bucket-op-{time.perf_counter_ns()}'
ObjectName(ts) == [chars |-> <<"object-bucket-op-">>, ts |-> ts]

\* --------------------------------------------------------------- deadline
\* lines 62-65: `if duration:` is the truth value of the timedelta
FinishTime(t, d) ==
    IF d.given /\ d.secs # 0 THEN t + d.secs ELSE t + DefaultDuration

\* line 102 with <= for <
ShouldStop_le(remaining) == remaining <= min_duration

\* line 102: if timedelta_sec < self.min_duration
ShouldStop(remaining) == remaining < min_duration

\* --------------------------------------------------- storage capability
\* S3Bucket.create_bucket
S3CreateBucket(bs, b) == bs \cup {b}

\* S3Object.upload_object
S3UploadObject(os, b, key, size) ==
    os \cup {[bucket |-> b, key |-> key, size |-> size]}

\* S3Bucket.delete_bucket(bucket_name, True): the bucket ...
S3DeleteBucket(bs, b) == bs \ {b}

\* ... and every object in it
S3DeleteObjects(os, b) == {o \in os : o.bucket # b}

\* one call to the storage capability, as recorded in the call log
Call(op, b, size, rec) ==
    [op |-> op, bucket |-> b, size |-> size, recursive |-> rec]

VARIABLES
    \* constructor arguments and the construction time
    object_size, test_id, seed, duration, t0,
    \* instance attributes
    iteration, finish_time,
    \* the process-global generator of the random module
    rng,
    \* locals of execute_bucket_workload and its position
    pc, file_size, bucket_name, file_name, i,
    \* environment: last datetime.now(), last perf_counter_ns(), the
    \* storage service and the working directory
    now, perf, buckets, objects, files,
    \* outcome: the returned tuple and the error the caller sees
    result, err,
    \* history: storage calls made, sizes drawn, error a step raised and
    \* where, actions of other driver instances
    calls, drawn, thrown, failed_at, others

vars == <<object_size, test_id, seed, duration, t0, iteration, finish_time,
          rng, pc, file_size, bucket_name, file_name, i, now, perf, buckets,
          objects, files, result, err, calls, drawn, thrown, failed_at,
          others>>

config == <<object_size, test_id, seed, duration, t0, finish_time>>
outcome == <<result, err, thrown, failed_at>>
store == <<buckets, objects>>

\* lines 55-65: the state after TestBucketOps.__init__
Init ==
    /\ object_size \in ObjectSizes
    /\ test_id \in TestIds
    /\ seed \in Seeds
    /\ duration \in Durations
    /\ t0 = 1
    /\ now = t0
    /\ rng = RngSeed(seed)
    /\ iteration = 1
    /\ finish_time = FinishTime(t0, duration)
    /\ pc = "start"
    /\ file_size = 0
    /\ bucket_name = NoName
    /\ file_name = NoName
    /\ i = 0
    /\ perf = 0
    /\ buckets = {}
    /\ objects = {}
    /\ files = {}
    /\ result = "none"
    /\ err = "none"
    /\ calls = <<>>
    /\ drawn = <<>>
    /\ thrown = "none"
    /\ failed_at = "none"
    /\ others = 0

\* time.perf_counter_ns() after the read that gave p.  Every two reads of
\* the run are separated by file or network I/O, so the nanosecond clock has
\* advanced; a reading is represented by its rank among the run's readings.
PerfReads(p) == {p + 1}

\* lines 70-76 preceded by a deadline test
StartIteration_checksFirst ==
    /\ pc = "start"
    /\ IF ShouldStop(finish_time - now)
       THEN /\ pc' = "done"
            /\ result' = "success"
            /\ UNCHANGED <<rng, drawn, file_size, perf, bucket_name>>
       ELSE /\ rng' = IF object_size.dict THEN RngNext(rng) ELSE rng
            /\ file_size' = ResolveSize(object_size, rng')
            /\ drawn' = IF object_size.dict
                        THEN Append(drawn, file_size') ELSE drawn
            /\ perf' \in PerfReads(perf)
            /\ bucket_name' = BucketName(test_id, perf')
            /\ pc' = "create"
            /\ UNCHANGED result
    /\ UNCHANGED <<config, iteration, file_name, i, now, store, files, err,
                   thrown, failed_at, calls, others>>

\* lines 70-76: resolve the size, synthesize the bucket name
StartIteration ==
    /\ pc = "start"
    /\ rng' = IF object_size.dict THEN RngNext(rng) ELSE rng
    /\ file_size' = ResolveSize(object_size, rng')
    /\ drawn' = IF object_size.dict THEN Append(drawn, file_size') ELSE drawn
    /\ perf' \in PerfReads(perf)
    /\ bucket_name' = BucketName(test_id, perf')
    /\ pc' = "create"
    /\ UNCHANGED <<config, iteration, file_name, i, now, store, files,
                   outcome, calls, others>>

\* line 78: await self.create_bucket(bucket_name); line 80 enters the loop
CreateBucket ==
    /\ pc = "create"
    /\ calls' = Append(calls, Call("create_bucket", bucket_name, 0, FALSE))
    /\ buckets' = S3CreateBucket(buckets, bucket_name)
    /\ i' = 0
    /\ pc' = IF 0 < object_per_iter THEN "write" ELSE "list_buckets"
    /\ UNCHANGED <<config, iteration, rng, file_size, bucket_name, file_name,
                   now, perf, objects, files, outcome, drawn, others>>

\* lines 81-84: name the object, write file_size random bytes to the file
WriteFile ==
    /\ pc = "write"
    /\ perf' \in PerfReads(perf)
    /\ file_name' = ObjectName(perf')
    /\ files' = {f \in files : f.name # file_name'}
                  \cup {[name |-> file_name', size |-> file_size]}
    /\ pc' = "upload"
    /\ UNCHANGED <<config, iteration, rng, file_size, bucket_name, i, now,
                   store, outcome, calls, drawn, others>>

\* line 85: await self.upload_object(bucket_name, file_name, file_path=...)
UploadObject ==
    /\ pc = "upload"
    /\ calls' = Append(calls, Call("upload_object", bucket_name,
                                   file_size, FALSE))
    /\ objects' = S3UploadObject(objects, bucket_name, file_name, file_size)
    /\ pc' = "remove"
    /\ UNCHANGED <<config, iteration, rng, file_size, bucket_name, file_name,
                   i, now, perf, buckets, files, outcome, drawn, others>>

\* line 88 left out: the generated file stays
RemoveFile_keeps ==
    /\ pc = "remove"
    /\ i' = i + 1
    /\ pc' = IF i + 1 < object_per_iter THEN "write" ELSE "list_buckets"
    /\ UNCHANGED <<config, iteration, rng, file_size, bucket_name, file_name,
                   now, perf, store, files, outcome, calls, drawn, others>>

\* line 88: os.remove(file_name); line 80 advances the loop
RemoveFile ==
    /\ pc = "remove"
    /\ files' = {f \in files : f.name # file_name}
    /\ i' = i + 1
    /\ pc' = IF i + 1 < object_per_iter THEN "write" ELSE "list_buckets"
    /\ UNCHANGED <<config, iteration, rng, file_size, bucket_name, file_name,
                   now, perf, store, outcome, calls, drawn, others>>

\* line 90: await self.list_buckets()
ListBuckets ==
    /\ pc = "list_buckets"
    /\ calls' = Append(calls, Call("list_buckets", NoName, 0, FALSE))
    /\ pc' = "list_objects"
    /\ UNCHANGED <<config, iteration, rng, file_size, bucket_name, file_name,
                   i, now, perf, store, files, outcome, drawn, others>>

\* line 92 followed directly by line 96
ListObjects_skipsHead ==
    /\ pc = "list_objects"
    /\ calls' = Append(calls, Call("list_objects", bucket_name, 0, FALSE))
    /\ pc' = "delete"
    /\ UNCHANGED <<config, iteration, rng, file_size, bucket_name, file_name,
                   i, now, perf, store, files, outcome, drawn, others>>

\* line 92: await self.list_objects(bucket_name)
ListObjects ==
    /\ pc = "list_objects"
    /\ calls' = Append(calls, Call("list_objects", bucket_name, 0, FALSE))
    /\ pc' = "head"
    /\ UNCHANGED <<config, iteration, rng, file_size, bucket_name, file_name,
                   i, now, perf, store, files, outcome, drawn, others>>

\* line 94: await self.head_bucket(bucket_name)
HeadBucket ==
    /\ pc = "head"
    /\ calls' = Append(calls, Call("head_bucket", bucket_name, 0, FALSE))
    /\ pc' = "delete"
    /\ UNCHANGED <<config, iteration, rng, file_size, bucket_name, file_name,
                   i, now, perf, store, files, outcome, drawn, others>>

\* line 96 left out: the iteration ends without the delete
DeleteBucket_skips ==
    /\ pc = "delete"
    /\ pc' = "check"
    /\ UNCHANGED <<config, iteration, rng, file_size, bucket_name, file_name,
                   i, now, perf, store, files, outcome, calls, drawn, others>>

\* line 96: await self.delete_bucket(bucket_name, True)
DeleteBucket ==
    /\ pc = "delete"
    /\ calls' = Append(calls, Call("delete_bucket", bucket_name, 0, TRUE))
    /\ buckets' = S3DeleteBucket(buckets, bucket_name)
    /\ objects' = S3DeleteObjects(objects, bucket_name)
    /\ pc' = "check"
    /\ UNCHANGED <<config, iteration, rng, file_size, bucket_name, file_name,
                   i, now, perf, files, outcome, drawn, others>>

\* lines 100-105: read the clock, return or start the next iteration
CheckDeadline ==
    /\ pc = "check"
    /\ now' \in now..(now + MaxElapsed)
    /\ IF ShouldStop(finish_time - now')
       THEN /\ pc' = "done"
            /\ result' = "success"
            /\ UNCHANGED iteration
       ELSE /\ iteration < MaxIter
            /\ iteration' = iteration + 1
            /\ pc' = "start"
            /\ UNCHANGED result
    /\ UNCHANGED <<config, rng, file_size, bucket_name, file_name, i, perf,
                   store, files, err, thrown, failed_at, calls, drawn, others>>

\* the storage call made at each position, and the position after it
StorageSteps ==
    {"create", "upload", "list_buckets", "list_objects", "head", "delete"}

CallAt(p) ==
    CASE p = "create" -> Call("create_bucket", bucket_name, 0, FALSE)
      [] p = "upload" -> Call("upload_object", bucket_name, file_size, FALSE)
      [] p = "list_buckets" -> Call("list_buckets", NoName, 0, FALSE)
      [] p = "list_objects" -> Call("list_objects", bucket_name, 0, FALSE)
      [] p = "head" -> Call("head_bucket", bucket_name, 0, FALSE)
      [] p = "delete" -> Call("delete_bucket", bucket_name, 0, TRUE)

AfterCall(p) ==
    CASE p = "create" -> "write"
      [] p = "upload" -> "remove"
      [] p = "list_buckets" -> "list_objects"
      [] p = "list_objects" -> "head"
      [] p = "head" -> "delete"
      [] p = "delete" -> "check"

\* lines 97-99 as `except ...: LOGGER.exception(err)` without the raise
RaiseStorage_swallows ==
    /\ pc \in StorageSteps
    /\ \E e \in {"ClientError", "AssertionError"} : thrown' = e
    /\ failed_at' = pc
    /\ calls' = Append(calls, CallAt(pc))
    /\ pc' = AfterCall(pc)
    /\ UNCHANGED <<config, iteration, rng, file_size, bucket_name, file_name,
                   i, now, perf, store, files, result, err, drawn, others>>

\* lines 97-99: a storage call raises; the error is logged and re-raised
RaiseStorage ==
    /\ pc \in StorageSteps
    /\ \E e \in {"ClientError", "AssertionError"} : thrown' = e
    /\ failed_at' = pc
    /\ calls' = Append(calls, CallAt(pc))
    /\ err' = thrown'
    /\ pc' = "raised"
    /\ UNCHANGED <<config, iteration, rng, file_size, bucket_name, file_name,
                   i, now, perf, store, files, result, drawn, others>>

\* lines 83-84, 97-99: open() or write() raises IOError; write() failing
\* leaves the opened file behind
RaiseWrite ==
    /\ pc = "write"
    /\ perf' \in PerfReads(perf)
    /\ file_name' = ObjectName(perf')
    /\ \/ files' = files
       \/ files' = files \cup {[name |-> file_name', size |-> 0]}
    /\ thrown' = "IOError"
    /\ failed_at' = pc
    /\ err' = thrown'
    /\ pc' = "raised"
    /\ UNCHANGED <<config, iteration, rng, file_size, bucket_name, i, now,
                   store, result, calls, drawn, others>>

\* lines 88, 97-99: os.remove raises IOError
RaiseRemove ==
    /\ pc = "remove"
    /\ thrown' = "IOError"
    /\ failed_at' = pc
    /\ err' = thrown'
    /\ pc' = "raised"
    /\ UNCHANGED <<config, iteration, rng, file_size, bucket_name, file_name,
                   i, now, perf, store, files, result, calls, drawn, others>>

\* another driver's code can run before this driver's first iteration and
\* while this driver is suspended in an await
OtherCanRun ==
    \/ pc = "start" /\ calls = <<>>
    \/ pc \in StorageSteps

\* line 56 in another instance's __init__: random.seed(seed)
OtherConstruct ==
    /\ OtherCanRun
    /\ others < MaxOther
    /\ \E s \in Seeds : rng' = RngSeed(s)
    /\ others' = others + 1
    /\ UNCHANGED <<config, iteration, pc, file_size, bucket_name, file_name,
                   i, now, perf, store, files, outcome, calls, drawn>>

\* line 73 in another instance's iteration: random.randrange(...)
OtherDraw ==
    /\ OtherCanRun
    /\ others < MaxOther
    /\ rng' = RngNext(rng)
    /\ others' = others + 1
    /\ UNCHANGED <<config, iteration, pc, file_size, bucket_name, file_name,
                   i, now, perf, store, files, outcome, calls, drawn>>

Next ==
    \/ StartIteration
    \/ CreateBucket
    \/ WriteFile
    \/ UploadObject
    \/ RemoveFile
    \/ ListBuckets
    \/ ListObjects
    \/ HeadBucket
    \/ DeleteBucket
    \/ CheckDeadline
    \/ RaiseStorage
    \/ RaiseWrite
    \/ RaiseRemove
    \/ OtherConstruct
    \/ OtherDraw

Spec == Init /\ [][Next]_vars

\* ------------------------------------------------------------ properties
\* storage calls of one iteration
IterLen == object_per_iter + 5

Proj(c) == [op |-> c.op, bucket |-> c.bucket, recursive |-> c.recursive]

\* the calls of one error-free iteration on bucket b, in order
ExpectedIter(b) ==
    <<[op |-> "create_bucket", bucket |-> b, recursive |-> FALSE]>>
    \o [k \in 1..object_per_iter |->
           [op |-> "upload_object", bucket |-> b, recursive |-> FALSE]]
    \o <<[op |-> "list_buckets", bucket |-> NoName, recursive |-> FALSE],
         [op |-> "list_objects", bucket |-> b, recursive |-> FALSE],
         [op |-> "head_bucket", bucket |-> b, recursive |-> FALSE],
         [op |-> "delete_bucket", bucket |-> b, recursive |-> TRUE]>>

CallsOf(op) == {k \in 1..Len(calls) : calls[k].op = op}

UploadsTo(b) ==
    {k \in 1..Len(calls) : calls[k].op = "upload_object" /\ calls[k].bucket = b}

\* C1: the storage calls form consecutive blocks, one per iteration, each
\* create_bucket(b), object_per_iter uploads into b, list_buckets(),
\* list_objects(b), head_bucket(b), delete_bucket(b, True) on the bucket
\* name of that iteration; a block starts only after the previous block's
\* delete_bucket, and a completed iteration has made the whole block.
C1_CallOrder ==
    /\ \A k \in 1..Len(calls) :
          LET first == ((k - 1) \div IterLen) * IterLen + 1
          IN  Proj(calls[k]) = ExpectedIter(calls[first].bucket)[k - first + 1]
    /\ (iteration - 1) * IterLen <= Len(calls)
    /\ Len(calls) <= iteration * IterLen
    /\ Len(calls) > (iteration - 1) * IterLen =>
          calls[(iteration - 1) * IterLen + 1].bucket = bucket_name
    /\ pc \in {"check", "done"} => Len(calls) = iteration * IterLen

\* two complete error-free iterations
C1_Witness ==
    /\ pc = "check"
    /\ iteration = 2
    /\ thrown = "none"
    /\ Len(calls) = 2 * IterLen

\* storage calls made in the iteration when the step at position p, with
\* k objects already completed, has been attempted
CallsUpTo(p, k) ==
    CASE p = "create" -> 1
      [] p = "write" -> 1 + k
      [] p = "upload" -> 1 + k + 1
      [] p = "remove" -> 1 + k + 1
      [] p = "list_buckets" -> object_per_iter + 2
      [] p = "list_objects" -> object_per_iter + 3
      [] p = "head" -> object_per_iter + 4
      [] p = "delete" -> object_per_iter + 5

\* C2: once a step has raised, the run is aborted at that step: the caller
\* sees the same error, no success tuple exists, the failed call was made
\* once and no call was made after it (for a failed k-th upload exactly k
\* uploads were attempted and k-1 objects stored), and the bucket created
\* before the failing step still exists.
C2_AbortOnError ==
    thrown # "none" =>
        /\ pc = "raised"
        /\ err = thrown
        /\ result = "none"
        /\ Len(calls) = (iteration - 1) * IterLen + CallsUpTo(failed_at, i)
        /\ failed_at # "create" => buckets = {bucket_name}
        /\ failed_at = "create" => buckets = {}
        /\ failed_at = "upload" =>
              /\ Cardinality(UploadsTo(bucket_name)) = i + 1
              /\ Cardinality(objects) = i
              /\ CallsOf("list_buckets") \cup CallsOf("delete_bucket")
                     \subseteq 1..((iteration - 1) * IterLen)

\* the first upload of an iteration failed
C2_Witness ==
    /\ pc = "raised"
    /\ failed_at = "upload"
    /\ i = 0
    /\ err = "ClientError"

\* C3 (as amended): at the end of each complete iteration the run returns
\* the success result when finish_time - now < min_duration, and otherwise,
\* also when now = finish_time - min_duration exactly, increments the
\* iteration counter by one and starts another iteration.
C3_StopRule ==
    [][pc = "check" =>
          IF finish_time - now' < min_duration
          THEN pc' = "done" /\ result' = "success" /\ iteration' = iteration
          ELSE pc' = "start" /\ result' = "none"
                 /\ iteration' = iteration + 1]_vars

\* another iteration was started with now = finish_time - min_duration
C3_Witness ==
    /\ pc = "start"
    /\ iteration = 2
    /\ now = finish_time - min_duration

\* C3 (as claimed): the run stops when now >= deadline - min_duration and
\* continues only when now < deadline - min_duration.
C3_AsClaimed ==
    [][pc = "check" =>
          IF now' >= finish_time - min_duration
          THEN pc' = "done" /\ result' = "success" /\ iteration' = iteration
          ELSE pc' = "start" /\ result' = "none"
                 /\ iteration' = iteration + 1]_vars

\* C4: while no operation has failed at most one bucket of the run exists,
\* it is the bucket of the current iteration, and at an iteration boundary
\* and on return no bucket and no object of the run is left.
C4_Cleanup ==
    thrown = "none" =>
        /\ Cardinality(buckets) <= 1
        /\ buckets \subseteq {bucket_name}
        /\ \A o \in objects : o.bucket \in buckets
        /\ pc \in {"start", "check", "done"} => buckets = {} /\ objects = {}
        /\ pc \in {"write", "upload", "remove", "list_buckets",
                   "list_objects", "head", "delete"} => buckets = {bucket_name}

\* a successful return after two iterations that stored objects
C4_Witness ==
    /\ pc = "done"
    /\ iteration = 2
    /\ Cardinality(CallsOf("upload_object")) = 2 * object_per_iter
    /\ buckets = {}

\* C5: upload_object is called object_per_iter times in a complete
\* iteration and never more; each object goes through write file, upload,
\* remove file before the next object's file is written, so at most one
\* generated file exists, and none outside an object's cycle of an
\* error-free run.
C5_ObjectCycle ==
    /\ Cardinality(files) <= 1
    /\ Cardinality(UploadsTo(bucket_name)) <= object_per_iter
    /\ \A k \in CallsOf("delete_bucket") :
          Cardinality(UploadsTo(calls[k].bucket)) = object_per_iter
    /\ thrown = "none" =>
          /\ pc \in {"write", "upload", "remove"} =>
                /\ i < object_per_iter
                /\ Cardinality(UploadsTo(bucket_name))
                      = IF pc = "remove" THEN i + 1 ELSE i
          /\ pc \in {"upload", "remove"} =>
                files = {[name |-> file_name, size |-> file_size]}
          /\ pc = "remove" =>
                [bucket |-> bucket_name, key |-> file_name,
                 size |-> file_size] \in objects
          /\ pc \notin {"upload", "remove"} => files = {}
          /\ pc \in {"list_buckets", "list_objects", "head", "delete",
                     "check", "done"} =>
                Cardinality(UploadsTo(bucket_name)) = object_per_iter

\* the last object of an iteration is uploaded and its file not yet removed
C5_Witness ==
    /\ pc = "remove"
    /\ i = object_per_iter - 1
    /\ Cardinality(objects) = object_per_iter
    /\ Cardinality(files) = 1

\* C6: every uploaded object has the size resolved for its iteration: the
\* fixed size under an int policy, a size s with start <= s < end under a
\* range policy, the same s for all objects of one iteration.
C6_ObjectSize ==
    /\ \A k \in CallsOf("upload_object") :
          /\ ~object_size.dict => calls[k].size = object_size.value
          /\ object_size.dict =>
                object_size.start <= calls[k].size
                   /\ calls[k].size < object_size.end
          /\ \A m \in UploadsTo(calls[k].bucket) : calls[m].size = calls[k].size
    /\ \A o \in objects :
          /\ o.size = file_size
          /\ ~object_size.dict => o.size = object_size.value
    /\ \A n \in 1..Len(drawn) :
          object_size.start <= drawn[n] /\ drawn[n] < object_size.end

\* a range policy, two iterations with different sizes, all objects uploaded
C6_Witness ==
    /\ object_size.dict
    /\ pc = "check"
    /\ iteration = 2
    /\ Len(drawn) = 2
    /\ drawn[1] # drawn[2]
    /\ Cardinality(CallsOf("upload_object")) = 2 * object_per_iter

RECURSIVE RefSizes(_, _, _)
\* the first n sizes a generator in state r gives under policy osz
RefSizes(r, osz, n) ==
    IF n = 0 THEN <<>>
    ELSE <<ResolveSize(osz, RngNext(r))>> \o RefSizes(RngNext(r), osz, n - 1)

\* C7: the sizes drawn by the instance are the sequence its own seed and
\* range determine, whatever other driver instances are constructed or run
\* in the process.
C7_PrivateRandom ==
    object_size.dict =>
        drawn = RefSizes(RngSeed(seed), object_size, Len(drawn))

IsLower(s) == \A k \in DOMAIN s : s[k] \notin UpperChars

C9_Deadline ==
    finish_time = IF duration.given THEN t0 + duration.secs
                  ELSE t0 + DefaultDuration

\* C10: the success result exists only after an iteration boundary: a run
\* that returns has performed at least one iteration, every iteration it
\* performed is complete, and self.iteration counts them; this also when
\* the deadline was less than min_duration away at construction.
C10_AtLeastOnce ==
    /\ result = "success" <=> pc = "done"
    /\ pc = "done" =>
          /\ iteration >= 1
          /\ Cardinality(CallsOf("delete_bucket")) = iteration
          /\ Len(calls) = iteration * IterLen
          /\ calls[Len(calls)].op = "delete_bucket"
          /\ thrown = "none"

\* a run whose deadline had passed at construction returned after one
\* complete iteration
C10_Witness ==
    /\ pc = "done"
    /\ finish_time < t0
    /\ iteration = 1
    /\ Len(calls) = IterLen

====
